---- MODULE Spec2Model ----
(***************************************************************************)
(* Restaurant sales dashboard: the start-up normalization of the sales     *)
(* table, the filter of the update_dashboard callbacks and the aggregates  *)
(* the callbacks build from the filtered rows.                             *)
(*                                                                         *)
(* The four scripts of the repository share the start-up code verbatim     *)
(* (lines 9-38 of each), so one global sales_over_time stands for the      *)
(* global of whichever script is running; the callbacks of change_theme.py *)
(* and dashboard.py are separate actions over it.                          *)
(*                                                                         *)
(* A DataFrame is a sequence of records; the field row is the pandas index *)
(* label (the position of the row in the CSV file), which dropna and       *)
(* boolean indexing keep.  A Timestamp is a day ordinal (1 = 2021-01-01);  *)
(* NaT is 0.  A null (NaN) categorical value is the string "NaN".          *)
(***************************************************************************)
EXTENDS Integers, Sequences, FiniteSets, TLC

VARIABLES
    sales_over_time,   \* the global DataFrame (raw rows until normalized)
    theme,             \* change_theme.py's global theme
    pc,                \* "startup" before the module-level code ran, then "serving"
    response,          \* the response of the last callback, until it is rendered
    calls              \* SpecConc: the concurrent update_dashboard requests

vars == <<sales_over_time, theme, pc, response, calls>>

\* ------------------------------------------------------------------ bounds
MaxRows == 2          \* rows of the CSV file
MaxActive == 1        \* widgets of a request away from their initial value
MaxClicks == 1        \* clicks on the theme toggle
MaxTrendRows == 4     \* rows of the CSV file of SpecTrend
MaxTopRows == 6       \* rows of the CSV file of SpecTop
MaxFlowRows == 3      \* rows of the CSV file of SpecFlow
MaxWeekRows == 3      \* rows of the CSV file of SpecWeek

\* ---------------------------------------------------------------- calendar
NaN == "NaN"
NaT == 0

Years == {2021, 2022, 2023}

DaysInMonth == <<31, 28, 31, 30, 31, 30, 31, 31, 30, 31, 30, 31>>

RECURSIVE DaysBefore(_)
DaysBefore(m) == IF m = 1 THEN 0 ELSE DaysBefore(m - 1) + DaysInMonth[m - 1]

ValidYMD(y, m, d) ==
    /\ y \in Years
    /\ m \in 1..12
    /\ d >= 1
    /\ d <= DaysInMonth[m]

\* Timestamp(y, m, d) as a day ordinal
Ordinal(y, m, d) == 365 * (y - 2021) + DaysBefore(m) + d

YearOf(ts) == 2021 + ((ts - 1) \div 365)

DayOfYear(ts) == ((ts - 1) % 365) + 1

MonthOf(ts) ==
    CHOOSE m \in 1..12 :
        /\ DaysBefore(m) < DayOfYear(ts)
        /\ DayOfYear(ts) <= DaysBefore(m) + DaysInMonth[m]

\* Series.dt.to_period('M').astype(str): 'YYYY-MM', kept as the number YYYYMM
\* (same equality and same order as the zero-padded string)
ToPeriodM(ts) == YearOf(ts) * 100 + MonthOf(ts)

\* ------------------------------------------------------------- parse_date
\* A raw date string is its separator and its numeric fields; a string that
\* is no date has no fields.
StrpTime(ds, fmt) ==
    IF Len(ds.f) # 3 THEN NaT
    ELSE IF fmt = "%Y-%m-%d" THEN
        IF ds.sep = "-" /\ ValidYMD(ds.f[1], ds.f[2], ds.f[3])
        THEN Ordinal(ds.f[1], ds.f[2], ds.f[3]) ELSE NaT
    ELSE IF fmt = "%m/%d/%Y" THEN
        IF ds.sep = "/" /\ ValidYMD(ds.f[3], ds.f[1], ds.f[2])
        THEN Ordinal(ds.f[3], ds.f[1], ds.f[2]) ELSE NaT
    ELSE
        IF ds.sep = "-" /\ ValidYMD(ds.f[3], ds.f[2], ds.f[1])
        THEN Ordinal(ds.f[3], ds.f[2], ds.f[1]) ELSE NaT

\* pd.to_datetime(date_str, errors='coerce'): year first, else month first,
\* else day first, whatever the separator; NaT when none applies
GenericParse(ds) ==
    IF Len(ds.f) # 3 THEN NaT
    ELSE IF ValidYMD(ds.f[1], ds.f[2], ds.f[3])
        THEN Ordinal(ds.f[1], ds.f[2], ds.f[3])
    ELSE IF ValidYMD(ds.f[3], ds.f[1], ds.f[2])
        THEN Ordinal(ds.f[3], ds.f[1], ds.f[2])
    ELSE IF ValidYMD(ds.f[3], ds.f[2], ds.f[1])
        THEN Ordinal(ds.f[3], ds.f[2], ds.f[1])
    ELSE NaT

DateFormats == <<"%Y-%m-%d", "%m/%d/%Y", "%d-%m-%Y">>

parse_date(date_str) ==
    LET ok == {i \in 1..Len(DateFormats) : StrpTime(date_str, DateFormats[i]) # NaT}
    IN  IF ok # {}
        THEN StrpTime(date_str, DateFormats[CHOOSE i \in ok : \A j \in ok : i <= j])
        ELSE GenericParse(date_str)

\* ---------------------------------------------------------- normalization
time_of_sale_order == <<"Morning", "Afternoon", "Evening", "Night", "Midnight">>

Range(s) == {s[i] : i \in 1..Len(s)}

\* str.strip() of a payment method: the model writes surrounding blanks as
\* one leading and/or one trailing blank
Strip(s) ==
    CASE s = " Card " -> "Card"
      [] s = " Cash"  -> "Cash"
      [] s = "Card "  -> "Card"
      [] OTHER        -> s

\* lines 22, 28, 32, 38 on one row
NormalizeRow(r) ==
    [row                |-> r.row,
     order_id           |-> r.order_id,
     date               |-> parse_date(r.date),
     year_month         |-> ToPeriodM(parse_date(r.date)),
     item_name          |-> r.item_name,
     item_type          |-> r.item_type,
     transaction_type   |-> Strip(r.transaction_type),
     time_of_sale       |-> IF r.time_of_sale \in Range(time_of_sale_order)
                            THEN r.time_of_sale ELSE NaN,
     received_by        |-> r.received_by,
     quantity           |-> r.quantity,
     transaction_amount |-> r.transaction_amount]

\* Normalized keeping a row whose date cannot be parsed, dated 2021-01-01
NormalizedDefaulted(raw) ==
    LET kept == SelectSeq(raw, LAMBDA r : r.transaction_type # NaN)
    IN  [i \in 1..Len(kept) |->
            [NormalizeRow(kept[i]) EXCEPT
                !.date = IF @ = NaT THEN Ordinal(2021, 1, 1) ELSE @]]

\* lines 22-38: rows with an unparsable date or a null payment method go
Normalized(raw) ==
    LET kept == SelectSeq(raw, LAMBDA r : parse_date(r.date) # NaT
                                          /\ r.transaction_type # NaN)
    IN  [i \in 1..Len(kept) |-> NormalizeRow(kept[i])]

\* ------------------------------------------------------------- CSV rows
Ymd(y, m, d) == [sep |-> "-", f |-> <<y, m, d>>]
Mdy(m, d, y) == [sep |-> "/", f |-> <<m, d, y>>]
Dmy(d, m, y) == [sep |-> "-", f |-> <<d, m, y>>]
NoDate == [sep |-> "", f |-> <<>>]

RawRow(o, dt, n, ty, tt, tos, by, q, a) ==
    [order_id |-> o, date |-> dt, item_name |-> n, item_type |-> ty,
     transaction_type |-> tt, time_of_sale |-> tos, received_by |-> by,
     quantity |-> q, transaction_amount |-> a]

\* The rows a CSV file of the model is made of.
RawPool ==
    { RawRow(1, Ymd(2022, 1, 5),  "Burger", "Fastfood",  "Cash",   "Morning",   "Mr.",  1, 10),
      RawRow(2, Mdy(2, 10, 2022), "Soda",   "Beverages", "Card",   "Night",     "Mrs.", 2, 5),
      RawRow(1, Dmy(31, 1, 2022), "Burger", "Fastfood",  " Card ", "Afternoon", "Mrs.", 2, 20),
      RawRow(3, Ymd(2022, 1, 5),  "Soda",   "Beverages", "Cash",   "Brunch",    "Mr.",  1, 5),
      RawRow(4, Ymd(2022, 1, 6),  "Soda",   "Beverages", NaN,      "Evening",   "Mr.",  1, 5),
      RawRow(5, NoDate,           "Burger", "Fastfood",  "Cash",   "Midnight",  "Mrs.", 1, 10) }

WithRow(r, i) ==
    [row |-> i, order_id |-> r.order_id, date |-> r.date, item_name |-> r.item_name,
     item_type |-> r.item_type, transaction_type |-> r.transaction_type,
     time_of_sale |-> r.time_of_sale, received_by |-> r.received_by,
     quantity |-> r.quantity, transaction_amount |-> r.transaction_amount]

\* pd.read_csv: the rows of the file, labelled 0, 1, ... in file order
ReadCsv(rows) == [i \in 1..Len(rows) |-> WithRow(rows[i], i - 1)]

CsvFiles == UNION {[1..n -> RawPool] : n \in 0..MaxRows}

\* ------------------------------------------------------------ DataFrame ops
RECURSIVE SeqSum(_)
SeqSum(s) == IF s = <<>> THEN 0 ELSE Head(s) + SeqSum(Tail(s))

\* one column of a frame, as a Series
Col(df, c) == [i \in 1..Len(df) |-> df[i][c]]

\* Series.sum()
ColSum(df, c) == SeqSum(Col(df, c))

\* the distinct members of items in ascending order of the ranks given with
\* them (equal items have equal ranks)
SortByRank(items, ranks) ==
    LET idx == {i \in 1..Len(items) : \A j \in 1..(i - 1) : items[j] # items[i]}
    IN  [k \in 1..Cardinality(idx) |->
            items[CHOOSE i \in idx :
                      Cardinality({j \in idx : ranks[j] < ranks[i]}) = k - 1]]

\* Series.unique(): the distinct values in order of first appearance
Unique(series) == SortByRank(series, [i \in 1..Len(series) |-> i])

\* the sort order of the labels of the model (str comparison)
Collation ==
    <<"Beverages", "Burger", "Card", "Cash", "Fastfood", "Friday", "Fries",
      "Monday", "Mr.", "Mrs.", "Nachos", "Pizza", "Saturday", "Soda", "Sunday",
      "Taco", "Thursday", "Tuesday", "Wednesday", "Wrap">>

StrRank(s) == CHOOSE i \in 1..Len(Collation) : Collation[i] = s

PairRank(p) == StrRank(p[1]) * (Len(Collation) + 1) + StrRank(p[2])

\* groupby(keys)[vals].sum().reset_index() for keys already free of nulls:
\* one row per key that occurs, in ascending key order (sort=True)
GroupSumRanked(keys, ranks, vals) ==
    LET sorted == SortByRank(keys, ranks)
    IN  [k \in 1..Len(sorted) |->
            [key   |-> sorted[k],
             value |-> SeqSum([i \in 1..Len(keys) |->
                                  IF keys[i] = sorted[k] THEN vals[i] ELSE 0])]]

\* GroupSumInt with sort=False: the keys in order of first appearance
GroupSumIntUnsorted(keys, vals) ==
    GroupSumRanked(keys, [i \in 1..Len(keys) |-> i], vals)

\* grouping by a datetime or period key
GroupSumInt(keys, vals) == GroupSumRanked(keys, keys, vals)

\* grouping by a label; rows whose key is null are left out (dropna=True)
GroupSumStr(keys, vals) ==
    LET ok == {i \in 1..Len(keys) : keys[i] # NaN}
        pos == SortByRank([i \in 1..Len(keys) |-> IF i \in ok THEN i ELSE 0],
                          [i \in 1..Len(keys) |-> IF i \in ok THEN i ELSE 0])
        kept == SelectSeq(pos, LAMBDA i : i # 0)
    IN  GroupSumRanked([k \in 1..Len(kept) |-> keys[kept[k]]],
                       [k \in 1..Len(kept) |-> StrRank(keys[kept[k]])],
                       [k \in 1..Len(kept) |-> vals[kept[k]]])

\* grouping by two labels; rows with a null in either are left out
GroupSumPair(keys1, keys2, vals) ==
    LET ok == {i \in 1..Len(vals) : keys1[i] # NaN /\ keys2[i] # NaN}
        pos == SortByRank([i \in 1..Len(vals) |-> IF i \in ok THEN i ELSE 0],
                          [i \in 1..Len(vals) |-> IF i \in ok THEN i ELSE 0])
        kept == SelectSeq(pos, LAMBDA i : i # 0)
    IN  GroupSumRanked([k \in 1..Len(kept) |-> <<keys1[kept[k]], keys2[kept[k]]>>],
                       [k \in 1..Len(kept) |-> PairRank(<<keys1[kept[k]], keys2[kept[k]]>>)],
                       [k \in 1..Len(kept) |-> vals[kept[k]]])

\* GroupSumCat with observed=True: only the categories that occur
GroupSumCatObserved(keys, vals) ==
    LET seen == SelectSeq(time_of_sale_order,
                          LAMBDA t : \E i \in 1..Len(keys) : keys[i] = t)
    IN  [k \in 1..Len(seen) |->
            [key   |-> seen[k],
             value |-> SeqSum([i \in 1..Len(keys) |->
                                  IF keys[i] = seen[k] THEN vals[i] ELSE 0])]]

\* groupby on the categorical time_of_sale column (observed=False, the
\* default of pandas 2): one row per category, in the order of the
\* categories, sum 0 for a category no row has; rows with a null key are
\* left out
GroupSumCat(keys, vals) ==
    [k \in 1..Len(time_of_sale_order) |->
        [key   |-> time_of_sale_order[k],
         value |-> SeqSum([i \in 1..Len(keys) |->
                              IF keys[i] = time_of_sale_order[k] THEN vals[i] ELSE 0])]]

TripleRank(t) ==
    (StrRank(t[1]) * (Len(Collation) + 1) + StrRank(t[2])) * (Len(Collation) + 1)
        + StrRank(t[3])

\* GroupSizeTriple counting every triple once, however many rows have it
GroupTripleOnce(keys1, keys2, keys3) ==
    LET ok == {i \in 1..Len(keys1) :
                  keys1[i] # NaN /\ keys2[i] # NaN /\ keys3[i] # NaN}
        pos == SortByRank([i \in 1..Len(keys1) |-> IF i \in ok THEN i ELSE 0],
                          [i \in 1..Len(keys1) |-> IF i \in ok THEN i ELSE 0])
        kept == SelectSeq(pos, LAMBDA i : i # 0)
        triple == [k \in 1..Len(kept) |->
                      <<keys1[kept[k]], keys2[kept[k]], keys3[kept[k]]>>]
        sorted == SortByRank(triple, [k \in 1..Len(kept) |-> TripleRank(triple[k])])
    IN  [k \in 1..Len(sorted) |->
            [item_name |-> sorted[k][1], item_type |-> sorted[k][2],
             transaction_type |-> sorted[k][3], count |-> 1]]

\* GroupSizeTriple counting every row of a triple but the first
GroupSizeTripleLessOne(keys1, keys2, keys3) ==
    LET ok == {i \in 1..Len(keys1) :
                  keys1[i] # NaN /\ keys2[i] # NaN /\ keys3[i] # NaN}
        pos == SortByRank([i \in 1..Len(keys1) |-> IF i \in ok THEN i ELSE 0],
                          [i \in 1..Len(keys1) |-> IF i \in ok THEN i ELSE 0])
        kept == SelectSeq(pos, LAMBDA i : i # 0)
        triple == [k \in 1..Len(kept) |->
                      <<keys1[kept[k]], keys2[kept[k]], keys3[kept[k]]>>]
        sized == GroupSumRanked(triple,
                                [k \in 1..Len(kept) |-> TripleRank(triple[k])],
                                [k \in 1..Len(kept) |-> 1])
    IN  [k \in 1..Len(sized) |->
            [item_name |-> sized[k].key[1], item_type |-> sized[k].key[2],
             transaction_type |-> sized[k].key[3], count |-> sized[k].value - 1]]

\* groupby([k1, k2, k3]).size().reset_index(name='count'): one row per triple
\* that occurs, in ascending order of the triple, with the number of rows
\* that have it; rows with a null in any of the three are left out
GroupSizeTriple(keys1, keys2, keys3) ==
    LET ok == {i \in 1..Len(keys1) :
                  keys1[i] # NaN /\ keys2[i] # NaN /\ keys3[i] # NaN}
        pos == SortByRank([i \in 1..Len(keys1) |-> IF i \in ok THEN i ELSE 0],
                          [i \in 1..Len(keys1) |-> IF i \in ok THEN i ELSE 0])
        kept == SelectSeq(pos, LAMBDA i : i # 0)
        triple == [k \in 1..Len(kept) |->
                      <<keys1[kept[k]], keys2[kept[k]], keys3[kept[k]]>>]
        sized == GroupSumRanked(triple,
                                [k \in 1..Len(kept) |-> TripleRank(triple[k])],
                                [k \in 1..Len(kept) |-> 1])
    IN  [k \in 1..Len(sized) |->
            [item_name |-> sized[k].key[1], item_type |-> sized[k].key[2],
             transaction_type |-> sized[k].key[3], count |-> sized[k].value]]

\* date.dt.to_period('W').apply(lambda r: r.start_time): W is W-SUN, so the
\* start is the Monday on or before the date (ordinal 1 was a Friday)
Weekday(ts) == (ts + 3) % 7

\* WeekStart of the period 'W-SAT': the Sunday on or before the date
WeekStartSunday(ts) == ts - ((ts + 4) % 7)

WeekStart(ts) == ts - Weekday(ts)

\* date.dt.to_period('M').apply(lambda r: r.start_time)
MonthStart(ts) == Ordinal(YearOf(ts), MonthOf(ts), 1)

\* PivotTable with observed=True: only the time_of_sale values that occur
PivotTableObserved(df) ==
    LET names == Col(df, "item_name")
        cols == SortByRank(names, [i \in 1..Len(df) |-> StrRank(names[i])])
    IN  [index   |-> SelectSeq(time_of_sale_order,
                               LAMBDA t : \E i \in 1..Len(df) : df[i].time_of_sale = t),
         columns |-> cols,
         cell    |-> [t \in Range(time_of_sale_order), n \in Range(cols) |->
                        ColSum(SelectSeq(df, LAMBDA r : r.time_of_sale = t
                                                        /\ r.item_name = n),
                               "quantity")]]

\* pivot_table(index='time_of_sale', columns='item_name', values='quantity',
\* aggfunc='sum', fill_value=0, observed=False): every category of the
\* categorical index against every item name of the frame, in sorted column
\* order; rows whose time_of_sale is null belong to no cell
PivotTable(df) ==
    LET names == Col(df, "item_name")
        cols == SortByRank(names, [i \in 1..Len(df) |-> StrRank(names[i])])
    IN  [index   |-> IF Len(cols) = 0 THEN <<>> ELSE time_of_sale_order,
         columns |-> cols,
         cell    |-> [t \in Range(time_of_sale_order), n \in Range(cols) |->
                        ColSum(SelectSeq(df, LAMBDA r : r.time_of_sale = t
                                                        /\ r.item_name = n),
                               "quantity")]]

\* table.reset_index().melt(id_vars='time_of_sale', value_vars=value_vars):
\* the columns named by value_vars one after the other, each top to bottom
Melt(table, value_vars) ==
    LET h == Len(table.index)
    IN  [i \in 1..(Len(value_vars) * h) |->
            LET c == value_vars[((i - 1) \div h) + 1]
                t == table.index[((i - 1) % h) + 1]
            IN  [time_of_sale |-> t, item_name |-> c, value |-> table.cell[t, c]]]

\* ---------------------------------------------------------------- requests
\* The values a widget can send; the first is the value the layout starts with.
StartDates == <<Ymd(2022, 1, 1), Ymd(2022, 1, 5), Ymd(2022, 2, 10)>>
EndDates == <<Ymd(2022, 12, 31), Ymd(2022, 1, 31), Ymd(2022, 1, 5)>>
AmountRanges == << <<5, 20>>, <<10, 20>>, <<10, 5>> >>
QuantityRanges == << <<1, 2>>, <<2, 2>>, <<2, 1>> >>
ItemTypeSets == <<{"Fastfood", "Beverages"}, {"Fastfood"}, {}>>
ItemNameSets == <<{"Burger", "Soda"}, {"Soda"}, {}>>
PaymentSets == <<{"Cash", "Card"}, {"Cash"}, {}>>
TimeSets == <<Range(time_of_sale_order), {"Morning", "Night"}, {}>>
AllTheTime == 0
Months == <<AllTheTime, 202201, 202202>>
SalesTrends == <<"day", "week", "month", "interactive", "time_of_day", "year">>
Charts ==
    <<"all", "sales_trends", "payment_methods", "staff_performance",
      "customer_preferences", "item_popularity", "high_revenue_items",
      "sankey_diagram", "kpi">>

\* how many fields of a request differ from the widget's initial value
Active(req, initial) == Cardinality({f \in DOMAIN req : req[f] # initial[f]})

ThemeInitial ==
    [toggle_n_clicks |-> 0, start_date |-> StartDates[1], end_date |-> EndDates[1],
     transaction_amount_range |-> AmountRanges[1], quantity_range |-> QuantityRanges[1],
     selected_item_types |-> ItemTypeSets[1], selected_item_names |-> ItemNameSets[1],
     selected_payment_methods |-> PaymentSets[1], selected_sales_trends |-> SalesTrends[1]]

\* the arguments of change_theme.py's update_dashboard
ThemeRequests ==
    {req \in [toggle_n_clicks : 0..MaxClicks,
              start_date : Range(StartDates), end_date : Range(EndDates),
              transaction_amount_range : Range(AmountRanges),
              quantity_range : Range(QuantityRanges),
              selected_item_types : Range(ItemTypeSets),
              selected_item_names : Range(ItemNameSets),
              selected_payment_methods : Range(PaymentSets),
              selected_sales_trends : Range(SalesTrends)] :
        Active(req, ThemeInitial) <= MaxActive}

ChartInitial ==
    [selected_payment_methods |-> PaymentSets[1], selected_month |-> Months[1],
     selected_times |-> TimeSets[1], selected_item_types |-> ItemTypeSets[1],
     selected_item_names |-> ItemNameSets[1],
     selected_transaction_amount |-> AmountRanges[1],
     selected_quantity |-> QuantityRanges[1], selected_chart |-> Charts[1]]

LayoutInitial ==
    [start_date |-> StartDates[1], end_date |-> EndDates[1],
     transaction_amount_range |-> AmountRanges[1], quantity_range |-> QuantityRanges[1],
     selected_item_types |-> ItemTypeSets[1], selected_item_names |-> ItemNameSets[1],
     selected_payment_methods |-> PaymentSets[1], selected_sales_trends |-> SalesTrends[1]]

\* the arguments of test_new_layout.py's update_dashboard
LayoutRequests ==
    {req \in [start_date : Range(StartDates), end_date : Range(EndDates),
              transaction_amount_range : Range(AmountRanges),
              quantity_range : Range(QuantityRanges),
              selected_item_types : Range(ItemTypeSets),
              selected_item_names : Range(ItemNameSets),
              selected_payment_methods : Range(PaymentSets),
              selected_sales_trends : Range(SalesTrends)] :
        Active(req, LayoutInitial) <= MaxActive}

\* the arguments of dashboard.py's update_dashboard
ChartRequests ==
    {req \in [selected_payment_methods : Range(PaymentSets),
              selected_month : Range(Months), selected_times : Range(TimeSets),
              selected_item_types : Range(ItemTypeSets),
              selected_item_names : Range(ItemNameSets),
              selected_transaction_amount : Range(AmountRanges),
              selected_quantity : Range(QuantityRanges),
              selected_chart : Range(Charts)] :
        Active(req, ChartInitial) <= MaxActive}

\* a 'YYYY-MM-DD' string of the date picker, compared with a datetime column
ToTimestamp(ds) == StrpTime(ds, "%Y-%m-%d")

\* ------------------------------------------------------------------ filter
\* FilterMask with the end of the date range exclusive
FilterMaskExclusive(df, req) ==
    SelectSeq(df, LAMBDA r :
        /\ r.date >= ToTimestamp(req.start_date)
        /\ r.date < ToTimestamp(req.end_date)
        /\ r.transaction_amount >= req.transaction_amount_range[1]
        /\ r.transaction_amount <= req.transaction_amount_range[2]
        /\ r.quantity >= req.quantity_range[1]
        /\ r.quantity <= req.quantity_range[2]
        /\ r.item_type \in req.selected_item_types
        /\ r.item_name \in req.selected_item_names
        /\ r.transaction_type \in req.selected_payment_methods)

\* FilterMask with an empty selection taken as no restriction
FilterMaskEmptyAll(df, req) ==
    SelectSeq(df, LAMBDA r :
        /\ r.date >= ToTimestamp(req.start_date)
        /\ r.date <= ToTimestamp(req.end_date)
        /\ r.transaction_amount >= req.transaction_amount_range[1]
        /\ r.transaction_amount <= req.transaction_amount_range[2]
        /\ r.quantity >= req.quantity_range[1]
        /\ r.quantity <= req.quantity_range[2]
        /\ (req.selected_item_types = {} \/ r.item_type \in req.selected_item_types)
        /\ (req.selected_item_names = {} \/ r.item_name \in req.selected_item_names)
        /\ (req.selected_payment_methods = {}
                \/ r.transaction_type \in req.selected_payment_methods))

\* change_theme.py 466-476: one boolean mask, the conjunction of all predicates
FilterMask(df, req) ==
    SelectSeq(df, LAMBDA r :
        /\ r.date >= ToTimestamp(req.start_date)
        /\ r.date <= ToTimestamp(req.end_date)
        /\ r.transaction_amount >= req.transaction_amount_range[1]
        /\ r.transaction_amount <= req.transaction_amount_range[2]
        /\ r.quantity >= req.quantity_range[1]
        /\ r.quantity <= req.quantity_range[2]
        /\ r.item_type \in req.selected_item_types
        /\ r.item_name \in req.selected_item_names
        /\ r.transaction_type \in req.selected_payment_methods)

\* FilterSteps with the payment mask applied one position late (a mask taken
\* by position from a frame that is one row longer)
FilterStepsShifted(df, req) ==
    LET mask == [i \in 1..Len(df) |->
                    i > 1 /\ df[i - 1].transaction_type \in req.selected_payment_methods]
    IN  SelectSeq(df, LAMBDA r : \E i \in 1..Len(df) : df[i] = r /\ mask[i])

\* the smaller and the larger of a range's two ends
Lo(range) == IF range[1] <= range[2] THEN range[1] ELSE range[2]
Hi(range) == IF range[1] <= range[2] THEN range[2] ELSE range[1]

\* FilterSteps with the ends of a numeric range put in order first
FilterStepsSwapped(df, req) ==
    SelectSeq(df, LAMBDA r :
        /\ r.transaction_type \in req.selected_payment_methods
        /\ req.selected_month = AllTheTime \/ r.year_month = req.selected_month
        /\ r.time_of_sale \in req.selected_times
        /\ r.item_type \in req.selected_item_types
        /\ r.item_name \in req.selected_item_names
        /\ r.transaction_amount >= Lo(req.selected_transaction_amount)
        /\ r.transaction_amount <= Hi(req.selected_transaction_amount)
        /\ r.quantity >= Lo(req.selected_quantity)
        /\ r.quantity <= Hi(req.selected_quantity))

\* FilterSteps returning the kept rows sorted by amount, largest first
FilterStepsSorted(df, req) ==
    LET kept == SelectSeq(df, LAMBDA r : r.transaction_type \in req.selected_payment_methods)
    IN  SortByRank(kept, [i \in 1..Len(kept) |->
                            0 - (kept[i].transaction_amount * (MaxRows + 2) + kept[i].row)])

\* dashboard.py 209-219: successive narrowing steps
FilterSteps(df, req) ==
    LET f1 == SelectSeq(df, LAMBDA r : r.transaction_type \in req.selected_payment_methods)
        f2 == IF req.selected_month # AllTheTime
              THEN SelectSeq(f1, LAMBDA r : r.year_month = req.selected_month)
              ELSE f1
        f3 == SelectSeq(f2, LAMBDA r : r.time_of_sale \in req.selected_times)
        f4 == SelectSeq(f3, LAMBDA r : r.item_type \in req.selected_item_types)
        f5 == SelectSeq(f4, LAMBDA r : r.item_name \in req.selected_item_names)
        f6 == SelectSeq(f5, LAMBDA r :
                  /\ r.transaction_amount >= req.selected_transaction_amount[1]
                  /\ r.transaction_amount <= req.selected_transaction_amount[2])
    IN  SelectSeq(f6, LAMBDA r :
            /\ r.quantity >= req.selected_quantity[1]
            /\ r.quantity <= req.selected_quantity[2])

\* --------------------------------------------------------------- callbacks
\* change_theme.py 69-70
get_color_palette(th) == IF th = "dark" THEN "dark_color_palette" ELSE "color_palette"

\* change_theme.py 459-462
ThemeOf(toggle_n_clicks) == IF toggle_n_clicks % 2 = 1 THEN "dark" ELSE "light"

\* update_dashboard rebinding the global to the filtered frame
SalesRebound(df, req) == FilterMask(df, req)

\* change_theme.py 455-476: update_dashboard declares the global and only
\* reads it; the mask builds a new frame
SalesAfterUpdate(df, req) == df

\* Series.dt.day_name()
DayNames ==
    <<"Monday", "Tuesday", "Wednesday", "Thursday", "Friday", "Saturday", "Sunday">>

DayName(ts) == DayNames[Weekday(ts) + 1]

\* NLargest with keep='last': equal values in the reverse order of the series
NLargestKeepLast(series, n) ==
    LET before(i) == Cardinality({j \in 1..Len(series) :
                        \/ series[j].value > series[i].value
                        \/ series[j].value = series[i].value /\ j > i})
        sorted == [k \in 1..Len(series) |->
                      series[CHOOSE i \in 1..Len(series) : before(i) = k - 1]]
    IN  SubSeq(sorted, 1, IF Len(series) < n THEN Len(series) ELSE n)

\* Series.nlargest(n): the n largest values, largest first, equal values in
\* the order of the series (keep='first')
NLargest(series, n) ==
    LET before(i) == Cardinality({j \in 1..Len(series) :
                        \/ series[j].value > series[i].value
                        \/ series[j].value = series[i].value /\ j < i})
        sorted == [k \in 1..Len(series) |->
                      series[CHOOSE i \in 1..Len(series) : before(i) = k - 1]]
    IN  SubSeq(sorted, 1, IF Len(series) < n THEN Len(series) ELSE n)

TopN == 5

\* Series.nunique()
NUnique(series) == Cardinality(Range(series))

\* a float that is a quotient of two integers, kept as the quotient
Frac(num, den) == [num |-> num, den |-> den]

\* the float NaN
NaNFloat == Frac(0, 0)

\* Mean giving 0 for an empty series
MeanZeroIfEmpty(series) ==
    IF Len(series) = 0 THEN Frac(0, 1) ELSE Frac(SeqSum(series), Len(series))

\* Series.mean(): sum / count, NaN for an empty series
Mean(series) == IF Len(series) = 0 THEN NaNFloat ELSE Frac(SeqSum(series), Len(series))

\* format(x, ',.2f'): 'nan' for NaN, else the hundredths of x rounded to the
\* nearest, a tie to the even one
Format2f(x) ==
    IF x = NaNFloat THEN [nan |-> TRUE, hundredths |-> 0]
    ELSE LET q == (100 * x.num) \div x.den
             twice == 2 * ((100 * x.num) % x.den)
         IN  [nan |-> FALSE,
              hundredths |-> IF twice > x.den \/ (twice = x.den /\ q % 2 = 1)
                             THEN q + 1 ELSE q]

\* the mean of the amounts taken over the orders, not over the records
MeanPerOrder(filtered_data) ==
    IF Len(filtered_data) = 0 THEN NaNFloat
    ELSE Frac(ColSum(filtered_data, "transaction_amount"),
              NUnique(Col(filtered_data, "order_id")))

\* change_theme.py 479
average_transaction_amount(filtered_data) ==
    Mean(Col(filtered_data, "transaction_amount"))

\* the largest of two numbers
Max(a, b) == IF a >= b THEN a ELSE b

\* the smallest of two numbers
Min(a, b) == IF a <= b THEN a ELSE b

\* Rolling with center=True: the window reaches one position ahead
RollingCentered(series, window, min_periods) ==
    [i \in 1..Len(series) |->
        LET first == Max(1, i - window + 2)
            last == Min(Len(series), i + 1)
        IN  IF last - first + 1 < min_periods THEN NaNFloat
            ELSE [num |-> SeqSum(SubSeq(series, first, last)), den |-> last - first + 1]]

\* Series.rolling(window, min_periods).mean(): at each position the mean of
\* that value and the values before it, window values at most; NaN where
\* fewer than min_periods values are there
Rolling(series, window, min_periods) ==
    [i \in 1..Len(series) |->
        LET first == Max(1, i - window + 1)
        IN  IF i - first + 1 < min_periods THEN NaNFloat
            ELSE Mean(SubSeq(series, first, i))]

Window == 3

\* the value column of a grouped frame
Values(grouped) == [i \in 1..Len(grouped) |-> grouped[i].value]

\* change_theme.py 73-119, create_sales_trends_figures
create_sales_trends_figures(sales_data) ==
    LET date == Col(sales_data, "date")
        amount == Col(sales_data, "transaction_amount")
    IN  [day   |-> GroupSumInt(date, amount),
         week  |-> GroupSumInt([i \in 1..Len(date) |-> WeekStart(date[i])], amount),
         month |-> GroupSumInt([i \in 1..Len(date) |-> MonthStart(date[i])], amount)]

\* create_interactive_sales_trends_fig with rolling(window=3), min_periods
\* left at the window: no value until three months are there
InteractiveTrendFullWindow(sales_data) ==
    LET date == Col(sales_data, "date")
        monthly_sales == GroupSumInt([i \in 1..Len(date) |-> MonthStart(date[i])],
                                     Col(sales_data, "transaction_amount"))
    IN  [monthly_sales |-> monthly_sales,
         moving_average |-> Rolling(Values(monthly_sales), Window, Window)]

\* change_theme.py 122-124, create_interactive_sales_trends_fig: the monthly
\* sums and their moving average over the months present so far
create_interactive_sales_trends_fig(sales_data) ==
    LET date == Col(sales_data, "date")
        monthly_sales == GroupSumInt([i \in 1..Len(date) |-> MonthStart(date[i])],
                                     Col(sales_data, "transaction_amount"))
    IN  [monthly_sales |-> monthly_sales,
         moving_average |-> Rolling(Values(monthly_sales), Window, 1)]

\* change_theme.py 154-231, create_additional_figures
create_additional_figures(sales_data) ==
    LET date == Col(sales_data, "date")
        amount == Col(sales_data, "transaction_amount")
    IN  [payment_method    |-> [i \in 1..Len(sales_data) |->
                                   [key   |-> sales_data[i].transaction_type,
                                    value |-> sales_data[i].transaction_amount]],
         staff_performance |-> GroupSumStr(Col(sales_data, "received_by"), amount),
         item_preferences  |-> NLargest(GroupSumStr(Col(sales_data, "item_name"),
                                                    Col(sales_data, "quantity")), TopN),
         high_revenue      |-> NLargest(GroupSumStr(Col(sales_data, "item_name"), amount),
                                        TopN),
         day_of_week       |-> GroupSumStr([i \in 1..Len(date) |-> DayName(date[i])],
                                           amount)]

\* change_theme.py 233-235, create_heatmap_figure
create_heatmap_figure(sales_data) ==
    Melt(PivotTable(sales_data), Unique(Col(sales_data, "item_name")))

\* {node: i for i, node in enumerate(all_nodes)}[node]: a later entry of the
\* list replaces an earlier one with the same key; positions count from 0
NodeIndex(all_nodes, node) ==
    (CHOOSE i \in 1..Len(all_nodes) :
        /\ all_nodes[i] = node
        /\ \A j \in (i + 1)..Len(all_nodes) : all_nodes[j] # node) - 1

\* all_nodes with a label that occurs in two roles listed once
AllNodesMerged(sankey_data) ==
    Unique(Col(sankey_data, "item_name") \o Col(sankey_data, "item_type")
               \o Col(sankey_data, "transaction_type"))

\* change_theme.py 258: the labels of each role, one role after the other
all_nodes(sankey_data) ==
    Unique(Col(sankey_data, "item_name")) \o Unique(Col(sankey_data, "item_type"))
        \o Unique(Col(sankey_data, "transaction_type"))

\* change_theme.py 256-276, create_sankey_figure (dashboard.py 405-425 and
\* test_new_layout.py 179-195 are the same statements)
create_sankey_figure(sales_data) ==
    LET sankey_data == GroupSizeTriple(Col(sales_data, "item_name"),
                                       Col(sales_data, "item_type"),
                                       Col(sales_data, "transaction_type"))
        names == Col(sankey_data, "item_name")
        types == Col(sankey_data, "item_type")
        payments == Col(sankey_data, "transaction_type")
        index(labels) == [i \in 1..Len(labels) |->
                             NodeIndex(all_nodes(sankey_data), labels[i])]
    IN  [sankey_data |-> sankey_data,
         label  |-> all_nodes(sankey_data),
         source |-> index(names) \o index(types),
         target |-> index(types) \o index(payments),
         value  |-> Col(sankey_data, "count") \o Col(sankey_data, "count")]

\* change_theme.py 454-510, update_dashboard, run with the global theme th
\* that line 464 reads
ThemeResponse(df, th, req) ==
    LET filtered_data == FilterMask(df, req)
        trends == create_sales_trends_figures(filtered_data)
        more == create_additional_figures(filtered_data)
        view == req.selected_sales_trends
    IN  IF view \notin {"day", "week", "month", "interactive", "time_of_day"}
        THEN [handler |-> "change_theme.update_dashboard", req |-> req,
              error |-> "UnboundLocalError", filtered_data |-> filtered_data]
        ELSE [handler |-> "change_theme.update_dashboard", req |-> req,
              error |-> "none",
              color_palette |-> get_color_palette(th),
              filtered_data |-> filtered_data,
              total_sales |-> ColSum(filtered_data, "transaction_amount"),
              average_transaction_amount |-> average_transaction_amount(filtered_data),
              kpi_text |->
                  [total_sales |->
                       Format2f(Frac(ColSum(filtered_data, "transaction_amount"), 1)),
                   average_transaction_amount |->
                       Format2f(average_transaction_amount(filtered_data)),
                   number_of_transactions |-> NUnique(Col(filtered_data, "order_id"))],
              number_of_rows |-> Len(filtered_data),
              number_of_transactions |-> NUnique(Col(filtered_data, "order_id")),
              sales_over_day |-> trends.day,
              sales_over_week |-> trends.week,
              sales_over_month |-> trends.month,
              payment_method |-> more.payment_method,
              staff_performance |-> more.staff_performance,
              item_preferences |-> more.item_preferences,
              high_revenue_items |-> more.high_revenue,
              day_of_week |-> more.day_of_week,
              interactive_sales_trends |->
                  create_interactive_sales_trends_fig(filtered_data),
              heatmap_data |-> create_heatmap_figure(filtered_data),
              sankey |-> create_sankey_figure(filtered_data),
              sales_trends_fig |-> IF view = "time_of_day" THEN "day_of_week_fig"
                                   ELSE view]

\* test_new_layout.py 108-115: time_of_day_fig, built once at start-up from
\* the whole table
time_of_day_fig(df) ==
    GroupSumCat(Col(df, "time_of_sale"), Col(df, "transaction_amount"))

\* test_new_layout.py 360-438, update_dashboard: the figure of the selected
\* view and the filtered rows
LayoutResponse(df, req) ==
    LET filtered_data == FilterMask(df, req)
        trends == create_sales_trends_figures(filtered_data)
        view == req.selected_sales_trends
    IN  IF view \notin {"day", "week", "month", "interactive", "time_of_day"}
        THEN [handler |-> "test_new_layout.update_dashboard", req |-> req,
              error |-> "UnboundLocalError", filtered_data |-> filtered_data]
        ELSE [handler |-> "test_new_layout.update_dashboard", req |-> req,
              error |-> "none",
              filtered_data |-> filtered_data,
              sales_trends_fig |->
                  CASE view = "day"   -> [view |-> "day", data |-> trends.day]
                    [] view = "week"  -> [view |-> "week", data |-> trends.week]
                    [] view = "month" -> [view |-> "month", data |-> trends.month]
                    [] view = "interactive" ->
                           [view |-> "interactive", data |-> trends.month,
                            moving_average |->
                                Rolling(Values(trends.month), Window, Window)]
                    [] OTHER -> [view |-> "time_of_day", data |-> time_of_day_fig(df)]]

\* IdxMax taking the last position of the largest value
IdxMaxLast(series) ==
    CHOOSE i \in 1..Len(series) :
        /\ \A j \in 1..Len(series) : series[j].value <= series[i].value
        /\ \A j \in (i + 1)..Len(series) : series[j].value < series[i].value

\* Series.idxmax(): the first position of the largest value
IdxMax(series) ==
    CHOOSE i \in 1..Len(series) :
        /\ \A j \in 1..Len(series) : series[j].value <= series[i].value
        /\ \A j \in 1..(i - 1) : series[j].value < series[i].value

ChartMapping ==
    {"sales_trends", "payment_methods", "staff_performance", "customer_preferences",
     "item_popularity", "high_revenue_items", "sankey_diagram"}

\* dashboard.py 208-476, update_dashboard
ChartResponse(df, req) ==
    LET filtered_data == FilterSteps(df, req)
        amount == Col(filtered_data, "transaction_amount")
        quantity == Col(filtered_data, "quantity")
        monthly_sales == GroupSumInt(Col(filtered_data, "year_month"), amount)
        table == PivotTable(filtered_data)
    IN  IF Len(monthly_sales) = 0
        THEN \* line 253: idxmax of an empty series
             [handler |-> "dashboard.update_dashboard", req |-> req,
              error |-> "ValueError", filtered_data |-> filtered_data]
        ELSE IF req.selected_chart # "all" /\ req.selected_chart \notin ChartMapping
        THEN \* line 475
             [handler |-> "dashboard.update_dashboard", req |-> req,
              error |-> "KeyError", filtered_data |-> filtered_data]
        ELSE [handler |-> "dashboard.update_dashboard", req |-> req,
              error |-> "none",
              filtered_data |-> filtered_data,
              monthly_sales |-> monthly_sales,
              moving_average |-> Rolling(Values(monthly_sales), Window, Window),
              max_month |-> monthly_sales[IdxMax(monthly_sales)].key,
              max_amount |-> monthly_sales[IdxMax(monthly_sales)].value,
              payment_method_revenue |->
                  GroupSumStr(Col(filtered_data, "transaction_type"), amount),
              staff_performance |->
                  GroupSumStr(Col(filtered_data, "received_by"), amount),
              grouped_data |->
                  GroupSumPair(Col(filtered_data, "item_name"),
                               Col(filtered_data, "item_type"), quantity),
              heatmap_data |-> Melt(table, table.columns),
              bubble_quantity |-> GroupSumStr(Col(filtered_data, "item_name"), quantity),
              bubble_amount |-> GroupSumStr(Col(filtered_data, "item_name"), amount),
              sankey |-> create_sankey_figure(filtered_data),
              figure |-> IF req.selected_chart = "all"
                         THEN {"sales_trends", "payment_methods", "staff_performance",
                               "customer_preferences", "item_popularity",
                               "high_revenue_items"}
                         ELSE {req.selected_chart}]

NoResponse == [handler |-> "none"]

Init ==
    /\ sales_over_time \in {ReadCsv(f) : f \in CsvFiles}
    /\ theme = "light"
    /\ pc = "startup"
    /\ response = NoResponse
    /\ calls = <<>>

\* module-level code, lines 13-38
Startup ==
    /\ pc = "startup"
    /\ sales_over_time' = Normalized(sales_over_time)
    /\ pc' = "serving"
    /\ UNCHANGED <<theme, response, calls>>

\* change_theme.py 454-510
update_dashboard_theme(req) ==
    /\ pc = "serving"
    /\ response = NoResponse
    /\ theme' = ThemeOf(req.toggle_n_clicks)
    /\ response' = ThemeResponse(sales_over_time, theme', req)
    /\ sales_over_time' = SalesAfterUpdate(sales_over_time, req)
    /\ UNCHANGED <<pc, calls>>

\* test_new_layout.py 360-438
update_dashboard_layout(req) ==
    /\ pc = "serving"
    /\ response = NoResponse
    /\ response' = LayoutResponse(sales_over_time, req)
    /\ UNCHANGED <<sales_over_time, theme, pc, calls>>

\* dashboard.py 208-476
update_dashboard_chart(req) ==
    /\ pc = "serving"
    /\ response = NoResponse
    /\ response' = ChartResponse(sales_over_time, req)
    /\ UNCHANGED <<sales_over_time, theme, pc, calls>>

\* change_theme.py 517-518: the whole table, as CSV
download_filtered_data_theme ==
    /\ pc = "serving"
    /\ response = NoResponse
    /\ response' = [handler |-> "change_theme.download_filtered_data",
                    error |-> "none", data |-> sales_over_time]
    /\ UNCHANGED <<sales_over_time, theme, pc, calls>>

\* dashboard.py 483-486: the function update_dashboard has no attribute
\* callback_context
download_filtered_data_chart ==
    /\ pc = "serving"
    /\ response = NoResponse
    /\ response' = [handler |-> "dashboard.download_filtered_data",
                    error |-> "AttributeError"]
    /\ UNCHANGED <<sales_over_time, theme, pc, calls>>

\* the browser takes the response
Render ==
    /\ response # NoResponse
    /\ response' = NoResponse
    /\ UNCHANGED <<sales_over_time, theme, pc, calls>>

\* ---- two update_dashboard requests of change_theme.py served by two threads
Threads == {1, 2}

\* concurrent requests differ in the theme toggle only
ConcRequests ==
    {req \in ThemeRequests :
        \A f \in DOMAIN req \ {"toggle_n_clicks"} : req[f] = ThemeInitial[f]}

InitConc ==
    /\ sales_over_time \in {Normalized(ReadCsv(f)) : f \in CsvFiles}
    /\ theme = "light"
    /\ pc = "serving"
    /\ response = NoResponse
    /\ calls = [t \in Threads |-> [pc |-> "idle"]]

\* change_theme.py 454-462: the request starts and writes the global theme
set_theme(t, req) ==
    /\ calls[t].pc = "idle"
    /\ theme' = ThemeOf(req.toggle_n_clicks)
    /\ calls' = [calls EXCEPT ![t] = [pc |-> "theme_set", req |-> req]]
    /\ UNCHANGED <<sales_over_time, pc, response>>

\* change_theme.py 464-510: reads the global theme, then works on locals
read_theme(t) ==
    /\ calls[t].pc = "theme_set"
    /\ calls' = [calls EXCEPT ![t] =
                    [pc |-> "done", req |-> calls[t].req,
                     response |-> ThemeResponse(sales_over_time, theme, calls[t].req)]]
    /\ sales_over_time' = SalesAfterUpdate(sales_over_time, calls[t].req)
    /\ UNCHANGED <<theme, pc, response>>

\* the response leaves; the thread takes the next request
return_response(t) ==
    /\ calls[t].pc = "done"
    /\ calls' = [calls EXCEPT ![t] = [pc |-> "idle"]]
    /\ UNCHANGED <<sales_over_time, theme, pc, response>>

NextConc ==
    \/ \E t \in Threads, req \in ConcRequests : set_theme(t, req)
    \/ \E t \in Threads : read_theme(t)
    \/ \E t \in Threads : return_response(t)

SpecConc == InitConc /\ [][NextConc]_vars

Next ==
    \/ Startup
    \/ \E req \in ThemeRequests : update_dashboard_theme(req)
    \/ \E req \in ChartRequests : update_dashboard_chart(req)
    \/ \E req \in LayoutRequests : update_dashboard_layout(req)
    \/ download_filtered_data_theme
    \/ download_filtered_data_chart
    \/ Render

Spec == Init /\ [][Next]_vars

\* ---- the monthly trend of a table that spans several months
\* one sale a row, on the 5th of a month of 2022, of 5 or of 10
TrendPool ==
    {RawRow(m, Ymd(2022, m, 5), "Burger", "Fastfood", "Cash", "Morning", "Mr.", 1, a) :
        m \in 1..4, a \in {5, 10}}

TrendFiles == UNION {[1..n -> TrendPool] : n \in 0..MaxTrendRows}

\* the requests that ask for the monthly trend, every filter as the layout
\* sets it
TrendThemeRequests == {[ThemeInitial EXCEPT !.selected_sales_trends = "interactive"]}

TrendChartRequests ==
    {[ChartInitial EXCEPT !.selected_chart = c] : c \in {"all", "sales_trends"}}

TrendLayoutRequests == {[LayoutInitial EXCEPT !.selected_sales_trends = "interactive"]}

InitTrend ==
    /\ sales_over_time \in {ReadCsv(f) : f \in TrendFiles}
    /\ theme = "light"
    /\ pc = "startup"
    /\ response = NoResponse
    /\ calls = <<>>

NextTrend ==
    \/ Startup
    \/ \E req \in TrendThemeRequests : update_dashboard_theme(req)
    \/ \E req \in TrendChartRequests : update_dashboard_chart(req)
    \/ \E req \in TrendLayoutRequests : update_dashboard_layout(req)
    \/ Render

SpecTrend == InitTrend /\ [][NextTrend]_vars

\* ---- the item rankings of a table with more items than a ranking shows
TopNames == <<"Burger", "Fries", "Nachos", "Pizza", "Soda", "Taco", "Wrap">>

\* the item of row i of a file: the names in ascending order, in descending
\* order, or each name on two rows running
TopOrders == {"ascending", "descending", "paired"}

TopName(order, i) ==
    CASE order = "ascending"  -> TopNames[i]
      [] order = "descending" -> TopNames[Len(TopNames) + 1 - i]
      [] OTHER                -> TopNames[(i + 1) \div 2]

\* files of one sale a row, of quantity 1 or 2 at 5 a piece
TopFiles ==
    UNION {{[i \in 1..n |->
                RawRow(i, Ymd(2022, 1, 5), TopName(order, i), "Fastfood", "Cash",
                       "Morning", "Mr.", q[i], 5 * q[i])] :
              order \in TopOrders, q \in [1..n -> {1, 2}]} :
           n \in 0..Min(MaxTopRows, Len(TopNames))}

\* the layout starts the item dropdown with every item name of the table
TopThemeRequests ==
    {[ThemeInitial EXCEPT !.selected_item_names = Range(TopNames),
                          !.selected_sales_trends = v] : v \in {"day", "month"}}

InitTop ==
    /\ sales_over_time \in {ReadCsv(f) : f \in TopFiles}
    /\ theme = "light"
    /\ pc = "startup"
    /\ response = NoResponse
    /\ calls = <<>>

NextTop ==
    \/ Startup
    \/ \E req \in TopThemeRequests : update_dashboard_theme(req)
    \/ Render

SpecTop == InitTop /\ [][NextTop]_vars

\* ---- the flow graph of a table in which a label has more than one role
\* an item called like a payment method, an item called like its type, two
\* items of one type paid the same way, one item paid in two ways
FlowPool ==
    { RawRow(1, Ymd(2022, 1, 5), "Burger",   "Fastfood",  "Cash", "Morning", "Mr.", 1, 10),
      RawRow(2, Ymd(2022, 1, 5), "Burger",   "Fastfood",  "Card", "Morning", "Mr.", 1, 10),
      RawRow(3, Ymd(2022, 1, 5), "Fries",    "Fastfood",  "Cash", "Morning", "Mr.", 1, 5),
      RawRow(4, Ymd(2022, 1, 5), "Soda",     "Beverages", "Card", "Morning", "Mr.", 1, 5),
      RawRow(5, Ymd(2022, 1, 5), "Card",     "Beverages", "Card", "Morning", "Mr.", 1, 20),
      RawRow(6, Ymd(2022, 1, 5), "Fastfood", "Fastfood",  "Cash", "Morning", "Mr.", 1, 10) }

FlowFiles == UNION {[1..n -> FlowPool] : n \in 0..MaxFlowRows}

FlowNames == {"Burger", "Fries", "Soda", "Card", "Fastfood"}

\* the layout starts the item dropdown with every item name of the table
FlowThemeRequests == {[ThemeInitial EXCEPT !.selected_item_names = FlowNames]}

FlowChartRequests ==
    {[ChartInitial EXCEPT !.selected_item_names = FlowNames, !.selected_chart = c] :
        c \in {"all", "sankey_diagram"}}

InitFlow ==
    /\ sales_over_time \in {ReadCsv(f) : f \in FlowFiles}
    /\ theme = "light"
    /\ pc = "startup"
    /\ response = NoResponse
    /\ calls = <<>>

NextFlow ==
    \/ Startup
    \/ \E req \in FlowThemeRequests : update_dashboard_theme(req)
    \/ \E req \in FlowChartRequests : update_dashboard_chart(req)
    \/ Render

SpecFlow == InitFlow /\ [][NextFlow]_vars

\* ---- the time buckets of a table whose dates lie around the ends of
\* weeks, of a month and of a year
\* Fri 2021-12-31, Sat 2022-01-01, Sun 01-02, Mon 01-03, Sun 01-09,
\* Mon 01-10, Tue 02-01
WeekDates ==
    {Ymd(2021, 12, 31), Ymd(2022, 1, 1), Ymd(2022, 1, 2), Ymd(2022, 1, 3),
     Ymd(2022, 1, 9), Ymd(2022, 1, 10), Ymd(2022, 2, 1)}

\* one sale of 5 a row, the rows in any order of their dates
WeekPool ==
    {RawRow(1, dt, "Burger", "Fastfood", "Cash", "Morning", "Mr.", 1, 5) :
        dt \in WeekDates}

WeekFiles == UNION {[1..n -> WeekPool] : n \in 0..MaxWeekRows}

\* the date picker spanning the table, or starting on Monday 2022-01-03
WeekStartDates == {Ymd(2021, 12, 31), Ymd(2022, 1, 3)}

WeekThemeRequests ==
    {[ThemeInitial EXCEPT !.start_date = sd, !.selected_sales_trends = v] :
        sd \in WeekStartDates, v \in {"day", "week", "month"}}

WeekLayoutRequests ==
    {[LayoutInitial EXCEPT !.start_date = sd, !.selected_sales_trends = "week"] :
        sd \in WeekStartDates}

WeekChartRequests == {[ChartInitial EXCEPT !.selected_chart = "sales_trends"]}

InitWeek ==
    /\ sales_over_time \in {ReadCsv(f) : f \in WeekFiles}
    /\ theme = "light"
    /\ pc = "startup"
    /\ response = NoResponse
    /\ calls = <<>>

NextWeek ==
    \/ Startup
    \/ \E req \in WeekThemeRequests : update_dashboard_theme(req)
    \/ \E req \in WeekLayoutRequests : update_dashboard_layout(req)
    \/ \E req \in WeekChartRequests : update_dashboard_chart(req)
    \/ Render

SpecWeek == InitWeek /\ [][NextWeek]_vars

\* ------------------------------------------------------------------ claims
UpdateHandlers == {"change_theme.update_dashboard", "dashboard.update_dashboard"}

IsUpdate == response.handler \in UpdateHandlers

\* the predicates a request supplies, on one record
Satisfies(r, handler, req) ==
    IF handler = "change_theme.update_dashboard"
    THEN /\ ToTimestamp(req.start_date) <= r.date
         /\ r.date <= ToTimestamp(req.end_date)
         /\ r.transaction_amount \in
                req.transaction_amount_range[1]..req.transaction_amount_range[2]
         /\ r.quantity \in req.quantity_range[1]..req.quantity_range[2]
         /\ r.item_type \in req.selected_item_types
         /\ r.item_name \in req.selected_item_names
         /\ r.transaction_type \in req.selected_payment_methods
    ELSE /\ r.transaction_type \in req.selected_payment_methods
         /\ req.selected_month = AllTheTime \/ r.year_month = req.selected_month
         /\ r.time_of_sale \in req.selected_times
         /\ r.item_type \in req.selected_item_types
         /\ r.item_name \in req.selected_item_names
         /\ r.transaction_amount \in
                req.selected_transaction_amount[1]..req.selected_transaction_amount[2]
         /\ r.quantity \in req.selected_quantity[1]..req.selected_quantity[2]

\* the filter of the handler that answered
FilterOf(handler, df, req) ==
    IF handler = "change_theme.update_dashboard"
    THEN FilterMask(df, req) ELSE FilterSteps(df, req)

\* C1: a record is in the filtered subset if and only if it is in the source
\* set and satisfies every supplied predicate, the range bounds inclusive.
C1_FilterExact ==
    IsUpdate =>
        \A r \in Range(sales_over_time) \cup Range(response.filtered_data) :
            r \in Range(response.filtered_data)
                <=> /\ r \in Range(sales_over_time)
                    /\ Satisfies(r, response.handler, response.req)

\* a row sits on the inclusive end of the date range and is kept, another
\* row of the table is filtered out
C1_Witness ==
    /\ response.handler = "change_theme.update_dashboard"
    /\ Len(response.filtered_data) < Len(sales_over_time)
    /\ \E i \in 1..Len(response.filtered_data) :
            response.filtered_data[i].date = ToTimestamp(response.req.end_date)

\* C2: filtering the filtered subset again with the same constraints
\* returns the same records in the same order.
C2_Idempotent ==
    IsUpdate =>
        FilterOf(response.handler, response.filtered_data, response.req)
            = response.filtered_data

\* dashboard.py kept one row of two
C2_Witness ==
    /\ response.handler = "dashboard.update_dashboard"
    /\ Len(response.filtered_data) = 1
    /\ Len(sales_over_time) = 2

\* position of a record in the source table
PosIn(df, r) == CHOOSE k \in 1..Len(df) : df[k] = r

\* C3: the filtered subset is a subsequence of the source table: every kept
\* record is a source record, kept records are in source order, none twice.
C3_Subsequence ==
    IsUpdate =>
        LET f == response.filtered_data
        IN  /\ \A i \in 1..Len(f) : f[i] \in Range(sales_over_time)
            /\ \A i, j \in 1..Len(f) :
                   i < j => PosIn(sales_over_time, f[i]) < PosIn(sales_over_time, f[j])

\* two records kept, of different amounts, the smaller first
C3_Witness ==
    /\ response.handler = "dashboard.update_dashboard"
    /\ Len(response.filtered_data) = 2
    /\ response.filtered_data[1].transaction_amount
           < response.filtered_data[2].transaction_amount

\* C4: once normalized, sales_over_time is never changed by a callback.
C4_SalesUnchanged == [][pc = "serving" => sales_over_time' = sales_over_time]_vars

\* update_dashboard answered with a proper subset of the table
C4_Witness ==
    /\ response.handler = "change_theme.update_dashboard"
    /\ pc = "serving"
    /\ Len(response.filtered_data) < Len(sales_over_time)
\* C5 (as claimed): under every interleaving of two update_dashboard
\* requests each response, its palette included, is the one the request
\* gets when it runs alone.
C5_CallsIsolated ==
    \A t \in Threads :
        calls[t].pc = "done" =>
            calls[t].response
                = ThemeResponse(sales_over_time, ThemeOf(calls[t].req.toggle_n_clicks),
                                calls[t].req)

\* the categorical fields of a request, and the initial values of all fields
CatFields(handler) ==
    IF handler = "change_theme.update_dashboard"
    THEN {"selected_item_types", "selected_item_names", "selected_payment_methods"}
    ELSE {"selected_item_types", "selected_item_names", "selected_payment_methods",
          "selected_times"}

InitialOf(handler) ==
    IF handler = "change_theme.update_dashboard" THEN ThemeInitial ELSE ChartInitial

ViewKnown ==
    IF response.handler = "change_theme.update_dashboard"
    THEN response.req.selected_sales_trends
             \in {"day", "week", "month", "interactive", "time_of_day"}
    ELSE response.req.selected_chart \in ChartMapping \cup {"all"}

\* C7 (as claimed): when the constraints select no record update_dashboard
\* completes without raising.
C7_EmptyCompletes ==
    (IsUpdate /\ ViewKnown /\ Len(response.filtered_data) = 0)
        => response.error = "none"

\* the numeric ranges of a request
RangeFields(handler) ==
    IF handler = "change_theme.update_dashboard"
    THEN {"transaction_amount_range", "quantity_range"}
    ELSE {"selected_transaction_amount", "selected_quantity"}

Inverted(handler, req) == \E f \in RangeFields(handler) : req[f][1] > req[f][2]

\* C8 (as claimed): a numeric range with min > max is answered with an
\* InvalidRange error.
C8_InvalidRangeSurfaced ==
    (IsUpdate /\ Inverted(response.handler, response.req))
        => response.error = "InvalidRange"

\* C8 (amended): a numeric range with min > max is evaluated as given, not
\* swapped and not rejected: no record satisfies it, the filtered subset is
\* empty and no InvalidRange error is raised.
C8_InvertedRangeEmpty ==
    (IsUpdate /\ Inverted(response.handler, response.req))
        => /\ response.filtered_data = <<>>
           /\ response.error # "InvalidRange"

\* an inverted range, and a record of the table that the request with the
\* two ends exchanged keeps
C8_Witness ==
    /\ response.handler = "dashboard.update_dashboard"
    /\ Inverted(response.handler, response.req)
    /\ FilterStepsSwapped(sales_over_time, response.req) # <<>>

SumValues(series) == SeqSum([i \in 1..Len(series) |-> series[i].value])

\* C9 (as claimed): for every grouping of the dashboard the group sums add
\* up to the sum of the measure over the filtered set.
C9_TotalsConserved ==
    (IsUpdate /\ response.error = "none") =>
        LET amount == ColSum(response.filtered_data, "transaction_amount")
            quantity == ColSum(response.filtered_data, "quantity")
        IN  IF response.handler = "change_theme.update_dashboard"
            THEN /\ SumValues(response.sales_over_day) = amount
                 /\ SumValues(response.sales_over_week) = amount
                 /\ SumValues(response.sales_over_month) = amount
                 /\ SumValues(response.payment_method) = amount
                 /\ SumValues(response.staff_performance) = amount
                 /\ SumValues(response.day_of_week) = amount
                 /\ SumValues(response.heatmap_data) = quantity
            ELSE /\ SumValues(response.monthly_sales) = amount
                 /\ SumValues(response.payment_method_revenue) = amount
                 /\ SumValues(response.staff_performance) = amount
                 /\ SumValues(response.bubble_amount) = amount
                 /\ SumValues(response.bubble_quantity) = quantity
                 /\ SumValues(response.grouped_data) = quantity
                 /\ SumValues(response.heatmap_data) = quantity

\* C10: the flat popularity list has one entry for every pair of a
\* configured time_of_sale and an item name of the filtered set, and no
\* other entry; the entry's value is the quantity sum of the records with
\* that pair, 0 when there is none.
C10_PivotDense ==
    (IsUpdate /\ response.error = "none") =>
        LET h == response.heatmap_data
            f == response.filtered_data
            names == {f[i].item_name : i \in 1..Len(f)}
        IN  /\ Len(h) = Len(time_of_sale_order) * Cardinality(names)
            /\ \A t \in Range(time_of_sale_order), n \in names :
                   \E i \in 1..Len(h) :
                       /\ h[i].time_of_sale = t
                       /\ h[i].item_name = n
                       /\ h[i].value
                              = ColSum(SelectSeq(f, LAMBDA r : r.time_of_sale = t
                                                              /\ r.item_name = n),
                                       "quantity")
                       /\ \A j \in 1..Len(h) :
                              (h[j].time_of_sale = t /\ h[j].item_name = n) => j = i

\* a popularity list of two items with a zero entry and a non-zero entry
C10_Witness ==
    /\ IsUpdate
    /\ response.error = "none"
    /\ Len(response.heatmap_data) = 2 * Len(time_of_sale_order)
    /\ \E i, j \in 1..Len(response.heatmap_data) :
            /\ response.heatmap_data[i].value = 0
            /\ response.heatmap_data[j].value > 0

\* the responses that carry the time_of_sale x item_name pivot
HasPivot ==
    /\ IsUpdate
    /\ response.error = "none"

\* the response that carries the grouping of the whole table by time_of_sale
HasTimeOfDay ==
    /\ response.handler = "test_new_layout.update_dashboard"
    /\ response.error = "none"
    /\ response.sales_trends_fig.view = "time_of_day"

\* C11 (as claimed): wherever records are grouped or pivoted by time_of_sale
\* the result has the five configured categories, in the fixed order, even
\* if no record of the filtered set has them.
C11_FiveCategoriesAlways ==
    /\ HasPivot =>
           {response.heatmap_data[i].time_of_sale : i \in 1..Len(response.heatmap_data)}
               = Range(time_of_sale_order)
    /\ HasTimeOfDay =>
           [i \in 1..Len(response.sales_trends_fig.data) |->
               response.sales_trends_fig.data[i].key] = time_of_sale_order

\* C11 (amended): the pivot has, for every item name of the filtered set,
\* the five configured categories in the fixed order, whether a record has
\* them or not, and so has no row at all when the filtered set is empty; the
\* grouping of the whole table by time_of_sale has the five categories in
\* the fixed order whatever the table holds.
C11_FixedOrderPerItem ==
    /\ HasPivot =>
           LET h == response.heatmap_data
               n == Len(time_of_sale_order)
               names == NUnique(Col(response.filtered_data, "item_name"))
           IN  /\ Len(h) = n * names
               /\ \A c \in 1..names, k \in 1..n :
                      /\ h[(c - 1) * n + k].time_of_sale = time_of_sale_order[k]
                      /\ h[(c - 1) * n + k].item_name = h[(c - 1) * n + 1].item_name
               /\ response.filtered_data = <<>> => h = <<>>
    /\ HasTimeOfDay =>
           [i \in 1..Len(response.sales_trends_fig.data) |->
               response.sales_trends_fig.data[i].key] = time_of_sale_order

\* the whole table grouped by time_of_sale, with a category that has a sale
\* and a category that has none
C11_Witness ==
    /\ HasTimeOfDay
    /\ \E i, j \in 1..Len(response.sales_trends_fig.data) :
           /\ response.sales_trends_fig.data[i].value > 0
           /\ response.sales_trends_fig.data[j].value = 0
           /\ i < j

\* the responses that carry the monthly sums and their moving average
HasTrend ==
    /\ response.handler \in UpdateHandlers \cup {"test_new_layout.update_dashboard"}
    /\ response.error = "none"
    /\ response.handler = "test_new_layout.update_dashboard"
           => response.sales_trends_fig.view = "interactive"

\* the monthly sums of the response, oldest month first
TrendSeries ==
    CASE response.handler = "change_theme.update_dashboard"
             -> Values(response.interactive_sales_trends.monthly_sales)
      [] response.handler = "dashboard.update_dashboard"
             -> Values(response.monthly_sales)
      [] OTHER -> Values(response.sales_trends_fig.data)

\* the moving average of the response
TrendAverage ==
    CASE response.handler = "change_theme.update_dashboard"
             -> response.interactive_sales_trends.moving_average
      [] response.handler = "dashboard.update_dashboard"
             -> response.moving_average
      [] OTHER -> response.sales_trends_fig.moving_average

\* the min_periods the handler's rolling window runs with
TrendMinPeriods ==
    IF response.handler = "change_theme.update_dashboard" THEN 1 ELSE Window

\* the monthly series that the tables of SpecTrend can give
MonthlySeries == UNION {[1..n -> {5, 10, 20}] : n \in 0..4}

\* C12: the moving average has no look-ahead: a monthly series that agrees
\* with the one of the response on the first i months and differs only
\* later has the same moving average (value or NaN) on the first i months.
C12_NoLookAhead ==
    HasTrend =>
        \A other \in MonthlySeries :
            \A i \in 0..Min(Len(other), Len(TrendSeries)) :
                SubSeq(other, 1, i) = SubSeq(TrendSeries, 1, i) =>
                    \A k \in 1..i :
                        Rolling(other, Window, TrendMinPeriods)[k] = TrendAverage[k]

\* a trend of three months, and a series that agrees with it on the first
\* two months and has another third month and another average there
C12_Witness ==
    /\ HasTrend
    /\ Len(TrendSeries) >= 3
    /\ TrendAverage[3] # NaNFloat
    /\ \E other \in MonthlySeries :
           /\ Len(other) >= 3
           /\ SubSeq(other, 1, 2) = SubSeq(TrendSeries, 1, 2)
           /\ other[3] # TrendSeries[3]
           /\ Rolling(other, Window, TrendMinPeriods)[3] # TrendAverage[3]

\* the float x is the integer v
FloatIs(x, v) ==
    /\ x # NaNFloat
    /\ x.num = v * x.den

\* C13 (as claimed): where the monthly series has fewer than 3 periods of
\* history, at its first and its second month, the moving average is the
\* monthly sum itself.
C13_ShortHistoryIsRaw ==
    HasTrend =>
        \A k \in 1..Min(2, Len(TrendSeries)) : FloatIs(TrendAverage[k], TrendSeries[k])

\* the two months of the claim, 10 then 5, averaged by change_theme.py: the
\* second value is the mean of both, 15 / 2
C13_MeanOfBoth ==
    /\ response.handler = "change_theme.update_dashboard"
    /\ response.error = "none"
    /\ TrendSeries = <<10, 5>>
    /\ TrendAverage = <<Frac(10, 1), Frac(15, 2)>>

\* the responses that carry the peak annotation
HasPeak ==
    /\ response.handler = "dashboard.update_dashboard"
    /\ response.error = "none"

\* C15: the peak annotation of a non-empty monthly series names a month
\* whose sum is the largest of the series, with that sum, and of several
\* such months the earliest.
C15_PeakIsFirstMax ==
    HasPeak =>
        LET m == response.monthly_sales
        IN  /\ m # <<>>
            /\ \A i \in 1..Len(m) : m[i].value <= response.max_amount
            /\ \E i \in 1..Len(m) :
                   /\ m[i].key = response.max_month
                   /\ m[i].value = response.max_amount
            /\ \A i \in 1..Len(m) :
                   m[i].value = response.max_amount => response.max_month <= m[i].key

\* two months share the largest sum, and a month with less comes first
C15_Witness ==
    /\ HasPeak
    /\ Len(response.monthly_sales) >= 3
    /\ response.monthly_sales[1].value < response.max_amount
    /\ \E i, j \in 1..Len(response.monthly_sales) :
           /\ i < j
           /\ response.monthly_sales[i].value = response.max_amount
           /\ response.monthly_sales[j].value = response.max_amount

\* the responses that carry the two item rankings
HasRanking ==
    /\ response.handler = "change_theme.update_dashboard"
    /\ response.error = "none"

\* the sum of a measure over the records of each item of the filtered set
ItemSums(measure) ==
    LET f == response.filtered_data
    IN  [n \in Range(Col(f, "item_name")) |->
            ColSum(SelectSeq(f, LAMBDA r : r.item_name = n), measure)]

\* the position of the first record of each item in the filtered set
FirstSeen ==
    LET f == response.filtered_data
    IN  [n \in Range(Col(f, "item_name")) |->
            CHOOSE i \in 1..Len(f) :
                /\ f[i].item_name = n
                /\ \A j \in 1..(i - 1) : f[j].item_name # n]

\* the place of each item name of the filtered set in ascending name order
NameOrder ==
    [n \in Range(Col(response.filtered_data, "item_name")) |-> StrRank(n)]

\* top is the ranking of the groups of sums: TopN groups or all of them if
\* they are fewer, each with its sum, the larger sum first and of two equal
\* sums the group of the smaller tie rank first, and no group left out goes
\* before a group of the ranking
IsRanking(top, sums, tie) ==
    LET goes_before(a, b) ==
            \/ sums[a] > sums[b]
            \/ sums[a] = sums[b] /\ tie[a] < tie[b]
    IN  /\ Len(top) = Min(TopN, Cardinality(DOMAIN sums))
        /\ \A i \in 1..Len(top) :
               /\ top[i].key \in DOMAIN sums
               /\ top[i].value = sums[top[i].key]
        /\ \A i, j \in 1..Len(top) : i < j => goes_before(top[i].key, top[j].key)
        /\ \A g \in DOMAIN sums :
               (\A i \in 1..Len(top) : top[i].key # g)
                   => \A i \in 1..Len(top) : goes_before(top[i].key, g)

\* C14 (as claimed): each item ranking is the TopN groups of largest sum, in
\* descending order of sum, and of groups with equal sums the one whose
\* first record comes earlier in the record set goes first and is the one
\* kept at the cut-off.
C14_TiesByFirstSeen ==
    HasRanking =>
        /\ IsRanking(response.item_preferences, ItemSums("quantity"), FirstSeen)
        /\ IsRanking(response.high_revenue_items, ItemSums("transaction_amount"),
                     FirstSeen)

\* C14 (amended): each item ranking is the TopN groups of largest sum, in
\* descending order of sum, and of groups with equal sums the one whose
\* item name is the smaller goes first and is the one kept at the cut-off.
C14_TiesByName ==
    HasRanking =>
        /\ IsRanking(response.item_preferences, ItemSums("quantity"), NameOrder)
        /\ IsRanking(response.high_revenue_items, ItemSums("transaction_amount"),
                     NameOrder)

\* more items than the ranking shows, the last item shown ties with an
\* item left out, and the item left out is the one seen first
C14_Witness ==
    /\ HasRanking
    /\ Len(response.item_preferences) = TopN
    /\ \E g \in DOMAIN FirstSeen :
           /\ \A i \in 1..TopN : response.item_preferences[i].key # g
           /\ ItemSums("quantity")[g] = response.item_preferences[TopN].value
           /\ FirstSeen[g] < FirstSeen[response.item_preferences[TopN].key]

\* the view the request asks for is one change_theme.py has a figure for
ThemeViewKnown ==
    response.req.selected_sales_trends
        \in {"day", "week", "month", "interactive", "time_of_day"}

\* C16: over an empty filtered set the KPI summary is total 0, mean NaN and
\* 0 distinct orders, and the three values are produced and formatted
\* without an error.
C16_EmptyKpi ==
    (/\ response.handler = "change_theme.update_dashboard"
     /\ ThemeViewKnown
     /\ response.filtered_data = <<>>)
        => /\ response.error = "none"
           /\ response.total_sales = 0
           /\ response.average_transaction_amount = NaNFloat
           /\ response.number_of_transactions = 0
           /\ response.kpi_text
                  = [total_sales |-> [nan |-> FALSE, hundredths |-> 0],
                     average_transaction_amount |-> [nan |-> TRUE, hundredths |-> 0],
                     number_of_transactions |-> 0]

\* a table with records, none of which the request keeps
C16_Witness ==
    /\ response.handler = "change_theme.update_dashboard"
    /\ ThemeViewKnown
    /\ response.filtered_data = <<>>
    /\ sales_over_time # <<>>

\* C17: the KPI triple of a call is the sum of transaction_amount, that sum
\* divided by the number of records, and the number of distinct order_id of
\* the records the call's own request keeps of the table, whatever calls
\* came before.
C17_KpiOfOwnFilter ==
    HasRanking =>
        LET own == FilterMask(sales_over_time, response.req)
            total == SeqSum([i \in 1..Len(own) |-> own[i].transaction_amount])
        IN  /\ response.total_sales = total
            /\ response.average_transaction_amount
                   = IF Len(own) = 0 THEN NaNFloat ELSE Frac(total, Len(own))
            /\ response.number_of_transactions
                   = Cardinality({own[i].order_id : i \in 1..Len(own)})

\* two records of one order are kept: the mean is over 2 records, 1 order
C17_Witness ==
    /\ HasRanking
    /\ Len(response.filtered_data) = 2
    /\ response.number_of_transactions = 1
    /\ response.average_transaction_amount.den = 2

\* the responses that carry the flow graph
HasFlow ==
    /\ IsUpdate
    /\ response.error = "none"

\* the distinct values of a field over the records the graph is built from
Distinct(field) == Range(Col(response.filtered_data, field))

\* the positions of the three blocks of the node list, counted from 0
NameBlock == 0..(Cardinality(Distinct("item_name")) - 1)

TypeBlock ==
    Cardinality(Distinct("item_name"))
        ..(Cardinality(Distinct("item_name")) + Cardinality(Distinct("item_type")) - 1)

PaymentBlock ==
    (Cardinality(Distinct("item_name")) + Cardinality(Distinct("item_type")))
        ..(Len(response.sankey.label) - 1)

\* the labels of the nodes at a set of positions
LabelsAt(block) == {response.sankey.label[i + 1] : i \in block}

\* C18: the node list is the distinct item names, then the distinct item
\* types, then the distinct payment methods of the records, each once in
\* its block, so its length is the sum of the three counts also when a
\* label occurs in two roles.
C18_NodeListByRole ==
    HasFlow =>
        /\ Len(response.sankey.label)
               = Cardinality(Distinct("item_name")) + Cardinality(Distinct("item_type"))
                     + Cardinality(Distinct("transaction_type"))
        /\ LabelsAt(NameBlock) = Distinct("item_name")
        /\ LabelsAt(TypeBlock) = Distinct("item_type")
        /\ LabelsAt(PaymentBlock) = Distinct("transaction_type")

\* a label is an item name and a payment method, and is listed twice
C18_Witness ==
    /\ HasFlow
    /\ Distinct("item_name") \cap Distinct("transaction_type") # {}
    /\ Len(response.sankey.label) > NUnique(response.sankey.label)

\* C19 (as claimed): every edge of the first hop goes from the node of the
\* triple's item name in the item name block to the node of its item type
\* in the item type block, every edge of the second hop from that node of
\* the item type block to the node of the triple's payment method in the
\* payment method block, also when a label occurs in two roles.
C19_EdgesByRole ==
    HasFlow =>
        LET g == response.sankey
            n == Len(g.sankey_data)
        IN  \A k \in 1..n :
                /\ g.source[k] \in NameBlock
                /\ g.label[g.source[k] + 1] = g.sankey_data[k].item_name
                /\ g.target[k] \in TypeBlock
                /\ g.label[g.target[k] + 1] = g.sankey_data[k].item_type
                /\ g.source[n + k] \in TypeBlock
                /\ g.label[g.source[n + k] + 1] = g.sankey_data[k].item_type
                /\ g.target[n + k] \in PaymentBlock
                /\ g.label[g.target[n + k] + 1] = g.sankey_data[k].transaction_type

\* the triples of the records of the filtered set
Triples ==
    {<<r.item_name, r.item_type, r.transaction_type>> :
        r \in Range(response.filtered_data)}

\* C20: every distinct triple of item name, item type and payment method
\* of the records gives two edges, from the item name to the item type and
\* from the item type to the payment method, each weighted by the number of
\* records of the triple; the edge list has twice as many entries as there
\* are distinct triples, edges of different items between the same item
\* type and payment method staying apart.
C20_TwoEdgesPerTriple ==
    HasFlow =>
        LET g == response.sankey
            n == Cardinality(Triples)
            records(t) == Cardinality({i \in 1..Len(response.filtered_data) :
                              LET r == response.filtered_data[i]
                              IN  <<r.item_name, r.item_type, r.transaction_type>> = t})
        IN  /\ Len(g.source) = 2 * n
            /\ Len(g.target) = 2 * n
            /\ Len(g.value) = 2 * n
            /\ \A t \in Triples :
                   \E k \in 1..n :
                       /\ g.label[g.source[k] + 1] = t[1]
                       /\ g.label[g.target[k] + 1] = t[2]
                       /\ g.value[k] = records(t)
                       /\ g.label[g.source[n + k] + 1] = t[2]
                       /\ g.label[g.target[n + k] + 1] = t[3]
                       /\ g.value[n + k] = records(t)
                       /\ \A j \in 1..n :
                              (/\ g.label[g.source[j] + 1] = t[1]
                               /\ g.label[g.target[j] + 1] = t[2]
                               /\ g.label[g.target[n + j] + 1] = t[3]) => j = k

\* two items of one type paid the same way, one of them on two records
\* whose amounts are not 1
C20_Witness ==
    /\ HasFlow
    /\ Len(response.filtered_data) = 3
    /\ Cardinality(Triples) = 2
    /\ Cardinality(Distinct("item_name")) = 2
    /\ Cardinality(Distinct("item_type")) = 1
    /\ Cardinality(Distinct("transaction_type")) = 1
    /\ \E k \in 1..Len(response.sankey.value) : response.sankey.value[k] = 2

\* C21: every edge weight of the flow graph is a positive integer, and the
\* weights of the edges from item names to item types, like those of the
\* edges from item types to payment methods, add up to the number of
\* records, each record counting for its triple.
C21_WeightsCountRecords ==
    HasFlow =>
        LET g == response.sankey
            n == Len(g.sankey_data)
        IN  /\ Len(g.value) = 2 * n
            /\ \A k \in 1..Len(g.value) : g.value[k] \in Nat \ {0}
            /\ SeqSum(SubSeq(g.value, 1, n)) = Len(response.filtered_data)
            /\ SeqSum(SubSeq(g.value, n + 1, 2 * n)) = Len(response.filtered_data)

\* three records of two triples: a weight of 2 and a weight of 1 per hop
C21_Witness ==
    /\ HasFlow
    /\ Len(response.filtered_data) = 3
    /\ Len(response.sankey.sankey_data) = 2
    /\ \E j, k \in 1..2 :
           /\ response.sankey.value[j] = 2
           /\ response.sankey.value[k] = 1

\* the response of an update_dashboard of any of the three scripts
IsAnyUpdate ==
    response.handler \in UpdateHandlers \cup {"test_new_layout.update_dashboard"}

\* the view key of the request is none the handler has a figure for
ViewUnknown ==
    IF response.handler = "dashboard.update_dashboard"
    THEN response.req.selected_chart \notin ChartMapping \cup {"all"}
    ELSE response.req.selected_sales_trends
             \notin {"day", "week", "month", "interactive", "time_of_day"}

\* C22 (as claimed): a view key that is not recognized is answered with an
\* UnknownView error, not with a view and not with another error.
C22_UnknownViewSurfaced ==
    (IsAnyUpdate /\ ViewUnknown) => response.error = "UnknownView"

\* C23 (as claimed): the structure returned for 'all' contains every view
\* that can be requested by a key of its own.
C23_AllHasEveryView ==
    (/\ response.handler = "dashboard.update_dashboard"
     /\ response.error = "none"
     /\ response.req.selected_chart = "all")
        => ChartMapping \subseteq response.figure

\* payment methods written with a blank before or after
Padded == {" Card ", " Cash", "Card "}

\* C24: every record of the normalized table has a parsed date and a
\* payment method that is not null and has no blank before or after it; a
\* raw row whose date no format parses, or whose payment method is null, is
\* left out, not given a default, and the rows around it are normalized.
C24_NormalizedValid ==
    [][pc = "startup" =>
          LET raw == sales_over_time
              normalized == sales_over_time'
              good == {j \in 1..Len(raw) :
                          parse_date(raw[j].date) # NaT /\ raw[j].transaction_type # NaN}
          IN  /\ \A i \in 1..Len(normalized) :
                     /\ normalized[i].date \in 1..(365 * Cardinality(Years))
                     /\ normalized[i].transaction_type # NaN
                     /\ normalized[i].transaction_type \notin Padded
              /\ {normalized[i].row : i \in 1..Len(normalized)}
                     = {raw[j].row : j \in good}
              /\ Len(normalized) = Cardinality(good)
              /\ \A i \in 1..Len(normalized) :
                     \E j \in good :
                         /\ raw[j].row = normalized[i].row
                         /\ normalized[i].date = parse_date(raw[j].date)
                         /\ normalized[i].item_name = raw[j].item_name
                         /\ normalized[i].transaction_amount = raw[j].transaction_amount
              /\ \A i, k \in 1..Len(normalized) :
                     i < k => normalized[i].row < normalized[k].row]_vars

\* the first row of the file was left out and the second, written with
\* blanks around its payment method, was normalized
C24_Witness ==
    /\ pc = "serving"
    /\ Len(sales_over_time) = 1
    /\ sales_over_time[1].row = 1
    /\ sales_over_time[1].transaction_type = "Card"
    /\ sales_over_time[1].date = Ordinal(2022, 1, 31)

\* C25 (as claimed): a record whose time_of_sale is outside the vocabulary
\* is either absent from the normalized table, or, where it is in the
\* filtered record set, has a row of its own after the five categories in
\* the time_of_sale pivot; it is never counted in the record set and
\* missing from the pivot.
C25_OnePolicyForUnknownTime ==
    (IsUpdate /\ response.error = "none") =>
        \A i \in 1..Len(response.filtered_data) :
            response.filtered_data[i].time_of_sale \notin Range(time_of_sale_order)
                => \E j \in 1..Len(response.heatmap_data) :
                       /\ response.heatmap_data[j].time_of_sale
                              = response.filtered_data[i].time_of_sale
                       /\ response.heatmap_data[j].item_name
                              = response.filtered_data[i].item_name

\* a series of buckets has its keys strictly ascending
Ascending(series) ==
    \A k \in 1..(Len(series) - 1) : series[k].key < series[k + 1].key

Keys(series) == {series[k].key : k \in 1..Len(series)}

\* the dates of the filtered records of the response
Dates == Col(response.filtered_data, "date")

\* C26: the day, week, month and year_month aggregations return their
\* buckets in strictly ascending key order, one entry for each bucket that
\* holds a record of the filtered set and none for any other, whatever the
\* order of the records.
C26_BucketsAscending ==
    /\ (response.handler = "change_theme.update_dashboard" /\ response.error = "none")
           => /\ Ascending(response.sales_over_day)
              /\ Ascending(response.sales_over_week)
              /\ Ascending(response.sales_over_month)
              /\ Keys(response.sales_over_day) = Range(Dates)
              /\ Keys(response.sales_over_week)
                     = {WeekStart(Dates[i]) : i \in 1..Len(Dates)}
              /\ Keys(response.sales_over_month)
                     = {MonthStart(Dates[i]) : i \in 1..Len(Dates)}
    /\ (response.handler = "dashboard.update_dashboard" /\ response.error = "none")
           => /\ Ascending(response.monthly_sales)
              /\ Keys(response.monthly_sales)
                     = Range(Col(response.filtered_data, "year_month"))

\* records given latest first, in three days, two weeks and two months of
\* two years
C26_Witness ==
    /\ response.handler = "change_theme.update_dashboard"
    /\ response.error = "none"
    /\ Len(Dates) = 3
    /\ Dates[1] > Dates[2]
    /\ Dates[2] > Dates[3]
    /\ Len(response.sales_over_day) = 3
    /\ Len(response.sales_over_week) = 2
    /\ Len(response.sales_over_month) = 2
    /\ YearOf(Dates[3]) < YearOf(Dates[1])

\* the responses that carry the weekly sums
HasWeek ==
    \/ /\ response.handler = "change_theme.update_dashboard"
       /\ response.error = "none"
    \/ /\ response.handler = "test_new_layout.update_dashboard"
       /\ response.error = "none"
       /\ response.sales_trends_fig.view = "week"

WeekSeries ==
    IF response.handler = "change_theme.update_dashboard"
    THEN response.sales_over_week
    ELSE response.sales_trends_fig.data

\* 2022-01-03 was a Monday
AMonday == Ordinal(2022, 1, 3)

\* C27: every key of the weekly aggregation is a Monday, every record is in
\* the one bucket whose key k has k <= date < k + 7 days, and the value of a
\* bucket is the sum over exactly the records of that week.
C27_WeekStartsMonday ==
    HasWeek =>
        /\ \A k \in 1..Len(WeekSeries) : WeekSeries[k].key % 7 = AMonday % 7
        /\ \A i \in 1..Len(Dates) :
               Cardinality({k \in 1..Len(WeekSeries) :
                               /\ WeekSeries[k].key <= Dates[i]
                               /\ Dates[i] < WeekSeries[k].key + 7}) = 1
        /\ \A k \in 1..Len(WeekSeries) :
               LET week == SelectSeq(response.filtered_data, LAMBDA r :
                               /\ WeekSeries[k].key <= r.date
                               /\ r.date < WeekSeries[k].key + 7)
               IN  /\ week # <<>>
                   /\ WeekSeries[k].value = ColSum(week, "transaction_amount")
        /\ \A j, k \in 1..Len(WeekSeries) :
               j # k => WeekSeries[j].key # WeekSeries[k].key

\* a Sunday and the Monday after it in two buckets, the Sunday's bucket
\* starting in the year before
C27_Witness ==
    /\ HasWeek
    /\ Ordinal(2022, 1, 2) \in Range(Dates)
    /\ Ordinal(2022, 1, 3) \in Range(Dates)
    /\ Keys(WeekSeries) = {Ordinal(2021, 12, 27), Ordinal(2022, 1, 3)}

\* C28 (as claimed): for every recognized view key the figure returned is
\* the one the key names, computed from the filtered set of the call; for
\* 'time_of_day' it is the transaction_amount sums by time_of_sale of the
\* filtered set, not the day-of-week figure and not the sums of the whole
\* table made at start-up.
C28_ViewIsTheOneNamed ==
    /\ (response.handler = "change_theme.update_dashboard" /\ response.error = "none")
           => response.sales_trends_fig = response.req.selected_sales_trends
    /\ (response.handler = "test_new_layout.update_dashboard" /\ response.error = "none")
           => LET fig == response.sales_trends_fig
                  own == create_sales_trends_figures(response.filtered_data)
              IN  /\ fig.view = response.req.selected_sales_trends
                  /\ fig.view = "day" => fig.data = own.day
                  /\ fig.view = "week" => fig.data = own.week
                  /\ fig.view \in {"month", "interactive"} => fig.data = own.month
                  /\ fig.view = "time_of_day"
                         => fig.data = GroupSumCat(
                                Col(response.filtered_data, "time_of_sale"),
                                Col(response.filtered_data, "transaction_amount"))

\* the response of change_theme.py, which carries the interactive trend
HasInteractive ==
    /\ response.handler = "change_theme.update_dashboard"
    /\ response.error = "none"

\* C29: in create_interactive_sales_trends_fig the monthly sums are in
\* ascending month order and the moving average at each position i is
\* defined and is the mean of the sums at positions max(first, i - 2) .. i:
\* of one value at the first month, of two at the second, of three after.
C29_TrailingMeanEverywhere ==
    HasInteractive =>
        LET fig == response.interactive_sales_trends
            sums == Values(fig.monthly_sales)
            average == fig.moving_average
        IN  /\ Ascending(fig.monthly_sales)
            /\ Len(average) = Len(sums)
            /\ \A i \in 1..Len(sums) :
                   LET first == IF i > 2 THEN i - 2 ELSE 1
                       n == i - first + 1
                   IN  /\ average[i] # NaNFloat
                       /\ average[i].den > 0
                       /\ average[i].num * n
                              = SeqSum(SubSeq(sums, first, i)) * average[i].den

\* four months whose first and fourth sums differ: the average of the
\* fourth month leaves the first month out
C29_Witness ==
    /\ HasInteractive
    /\ Len(response.interactive_sales_trends.monthly_sales) = 4
    /\ response.interactive_sales_trends.monthly_sales[1].value = 10
    /\ response.interactive_sales_trends.monthly_sales[4].value = 5
    /\ response.interactive_sales_trends.moving_average[2].den = 2
    /\ response.interactive_sales_trends.moving_average[4].den = 3

\* the request to change_theme.py that carries the values a request to
\* dashboard.py has for the predicates both scripts have, the date range as
\* the layout sets it
SharedRequest(req) ==
    [ThemeInitial EXCEPT
        !.transaction_amount_range = req.selected_transaction_amount,
        !.quantity_range = req.selected_quantity,
        !.selected_item_types = req.selected_item_types,
        !.selected_item_names = req.selected_item_names,
        !.selected_payment_methods = req.selected_payment_methods]

\* the predicates only dashboard.py has are set to let everything through:
\* every month, every time of sale of the vocabulary
OnlySharedPredicates ==
    /\ response.handler = "dashboard.update_dashboard"
    /\ response.req.selected_month = AllTheTime
    /\ response.req.selected_times = Range(time_of_sale_order)

\* C30 (as claimed): on the predicates both scripts have, the successive
\* narrowing steps of dashboard.py give the same records in the same order
\* as the single conjunction of change_theme.py, for every table.
C30_FiltersAgree ==
    OnlySharedPredicates
        => response.filtered_data
               = FilterMask(sales_over_time, SharedRequest(response.req))
====
